---- MODULE Spec2Model ----
(***************************************************************************)
(* Model of librdf/rdf_stream.c: the statement stream (librdf_stream) with *)
(* its optional map stage and one-statement look-ahead, and the producer   *)
(* that turns an iterator of nodes into a stream of statements.            *)
(***************************************************************************)
EXTENDS Integers, Sequences, FiniteSets, TLC

(* ------------------------------ bounds -------------------------------- *)
\* longest node sequence the iterator delivers; its nodes are 1, 2, ...
MaxNodes == 3
\* how many of the clones of one run may fail to allocate
MaxCloneFails == 1
\* librdf_stream_set_map calls made on one stream
MaxSetMap == 2

(* ----------------------------- constants ------------------------------ *)
NULL == 0
LIBRDF_STATEMENT_SUBJECT == 1
LIBRDF_STATEMENT_PREDICATE == 2
LIBRDF_STATEMENT_OBJECT == 4

NodeValues == 1..MaxNodes
\* the field selectors tried: 1, 2 and 4 are legal, 3 is not
FieldValues == LIBRDF_STATEMENT_SUBJECT..LIBRDF_STATEMENT_OBJECT
ValidFields == {LIBRDF_STATEMENT_SUBJECT, LIBRDF_STATEMENT_PREDICATE, LIBRDF_STATEMENT_OBJECT}

\* a statement: an allocation identity (0 for the prototype) and three nodes
NoStatement == [id |-> NULL, subject |-> NULL, predicate |-> NULL, object |-> NULL]

\* the nodes of the prototype statement: values no iterator node has
ProtoSubject == MaxNodes + 1
ProtoPredicate == MaxNodes + 2
ProtoObject == MaxNodes + 3

\* the prototype statement handed to the constructor: one NULL node space
\* at the selected field (all fields filled when the selector is illegal)
Prototype(f) ==
  [id |-> NULL,
   subject   |-> IF f = LIBRDF_STATEMENT_SUBJECT   THEN NULL ELSE ProtoSubject,
   predicate |-> IF f = LIBRDF_STATEMENT_PREDICATE THEN NULL ELSE ProtoPredicate,
   object    |-> IF f = LIBRDF_STATEMENT_OBJECT    THEN NULL ELSE ProtoObject]

\* the node sequences of length 0..n: the stream code never looks into a
\* node, so the nodes of one sequence are taken distinct
SeqsUpTo(n) == {[i \in 1..k |-> i] : k \in 0..n}

(* --------------------------- map functions ---------------------------- *)
\* A map function is a pure function of the statement.  It discards (frees
\* and returns NULL for) the statements that carry a node of its drop set;
\* the others it returns, unchanged or (mark) with the iterator's node
\* rewritten.  NullMap is stream->map = NULL.
MapFunctions == [set : {TRUE}, drop : SUBSET NodeValues, mark : BOOLEAN]
NullMap == [set |-> FALSE, drop |-> {}, mark |-> FALSE]
IdentityMap == [set |-> TRUE, drop |-> {}, mark |-> FALSE]

\* a rewritten node is a value no iterator or prototype node has
MarkNode(m, n) == IF m.mark /\ n \in NodeValues THEN 0 - n ELSE n

\* stream->map(stream->map_context, statement)
ApplyMap(m, st) ==
  IF {st.subject, st.predicate, st.object} \cap m.drop # {}
  THEN NoStatement
  ELSE [id |-> st.id,
        subject   |-> MarkNode(m, st.subject),
        predicate |-> MarkNode(m, st.predicate),
        object    |-> MarkNode(m, st.object)]

(* ------------------------------- state -------------------------------- *)
VARIABLES
  nodes,          \* the nodes the iterator delivers, in order
  clone_fails,    \* pulls at which librdf_new_statement_from_statement fails
  field,          \* scontext->field
  scontext_statement, \* scontext->statement, the caller's prototype statement
  iterator,       \* number of nodes taken from the iterator so far
  iterator_frees, \* librdf_free_iterator calls on the caller's iterator
  scontext,       \* adapter context: "none", "live" or "freed"
  stream,         \* "none" (not constructed), "null" (constructor returned NULL),
                  \* "live", "freed"
  is_end_stream,  \* stream->is_end_stream
  map,            \* stream->map (NullMap when no map is set)
  next,           \* stream->next, the stored look-ahead statement
  aborted,        \* LIBRDF_FATAL2 was reached
  finished_calls, \* calls of the producer's finished function
  freed_nodes,    \* pulls whose node was released by librdf_free_node
  freed_statements, \* ids of the statements released by librdf_free_statement
  discarded,      \* ids of the statements the map discarded (freed, returned NULL)
  alloc_failed,   \* the allocation that failed in the constructor: "none",
                  \* "context" or "stream"
  set_maps,       \* librdf_stream_set_map calls so far
  consumed,       \* some librdf_stream_end/librdf_stream_next call was made
  late_map,       \* librdf_stream_set_map was called after consumption began
  returned,       \* statements returned (non-NULL) by librdf_stream_next, in order
  unmapped_twin,  \* a second stream over an equal producer on which no map is
                  \* ever set and the same end and next calls are made: its
                  \* iterator position, its is_end_stream, what its last call returned
  last            \* the last call: what it was, what it returned, whom it called

vars == <<nodes, clone_fails, field, scontext_statement, iterator, iterator_frees, scontext, stream,
          is_end_stream, map, next, aborted, finished_calls, freed_nodes,
          freed_statements, discarded, alloc_failed, set_maps, consumed, late_map,
          returned, unmapped_twin, last>>

(* ------------------------- the node iterator -------------------------- *)
librdf_iterator_have_elements(it) == it < Len(nodes)

\* returns the next node (NULL when there is none) and the advanced iterator
librdf_iterator_get_next(it) ==
  IF it < Len(nodes) THEN [node |-> nodes[it + 1], it |-> it + 1]
                     ELSE [node |-> NULL, it |-> it]

(* -------------------- statements (external library) ------------------- *)
\* librdf_new_statement_from_statement: an independent copy, or NULL
librdf_new_statement_from_statement(st, id) ==
  IF id \in clone_fails THEN NoStatement ELSE [st EXCEPT !.id = id]

(* ------------------ producer: stream from node iterator --------------- *)
\* the end test with the negation forgotten
end_of_stream_not_negated(it) == librdf_iterator_have_elements(it)

librdf_stream_from_node_iterator_end_of_stream(it) ==
  ~librdf_iterator_have_elements(it)

\* next_statement whose predicate case sets the object
next_statement_sets_wrong_field(it) ==
  LET g == librdf_iterator_get_next(it)
      statement == librdf_new_statement_from_statement(scontext_statement, g.it)
  IN  IF g.node = NULL
      THEN [statement |-> NoStatement, it |-> g.it, freed |-> {}, fatal |-> FALSE,
            prototype |-> scontext_statement]
      ELSE IF statement = NoStatement
      THEN [statement |-> NoStatement, it |-> g.it, freed |-> {g.it}, fatal |-> FALSE,
            prototype |-> scontext_statement]
      ELSE IF field = LIBRDF_STATEMENT_SUBJECT
      THEN [statement |-> [statement EXCEPT !.subject = g.node], it |-> g.it,
            freed |-> {}, fatal |-> FALSE,
            prototype |-> scontext_statement]
      ELSE IF field \in {LIBRDF_STATEMENT_PREDICATE, LIBRDF_STATEMENT_OBJECT}
      THEN [statement |-> [statement EXCEPT !.object = g.node], it |-> g.it,
            freed |-> {}, fatal |-> FALSE,
            prototype |-> scontext_statement]
      ELSE [statement |-> statement, it |-> g.it, freed |-> {}, fatal |-> TRUE,
            prototype |-> scontext_statement]

\* next_statement whose default case returns the clone instead of aborting
next_statement_without_fatal(it) ==
  LET g == librdf_iterator_get_next(it)
      statement == librdf_new_statement_from_statement(scontext_statement, g.it)
  IN  IF g.node = NULL
      THEN [statement |-> NoStatement, it |-> g.it, freed |-> {}, fatal |-> FALSE,
            prototype |-> scontext_statement]
      ELSE IF statement = NoStatement
      THEN [statement |-> NoStatement, it |-> g.it, freed |-> {g.it}, fatal |-> FALSE,
            prototype |-> scontext_statement]
      ELSE IF field = LIBRDF_STATEMENT_SUBJECT
      THEN [statement |-> [statement EXCEPT !.subject = g.node], it |-> g.it,
            freed |-> {}, fatal |-> FALSE,
            prototype |-> scontext_statement]
      ELSE IF field = LIBRDF_STATEMENT_PREDICATE
      THEN [statement |-> [statement EXCEPT !.predicate = g.node], it |-> g.it,
            freed |-> {}, fatal |-> FALSE,
            prototype |-> scontext_statement]
      ELSE IF field = LIBRDF_STATEMENT_OBJECT
      THEN [statement |-> [statement EXCEPT !.object = g.node], it |-> g.it,
            freed |-> {}, fatal |-> FALSE,
            prototype |-> scontext_statement]
      ELSE [statement |-> statement, it |-> g.it, freed |-> {}, fatal |-> FALSE,
            prototype |-> scontext_statement]

\* result: the statement (NoStatement for NULL), the advanced iterator, the
\* pulls whose node was freed, and whether LIBRDF_FATAL2 was reached
librdf_stream_from_node_iterator_next_statement(it) ==
  LET g == librdf_iterator_get_next(it)
      statement == librdf_new_statement_from_statement(scontext_statement, g.it)
  IN  IF g.node = NULL
      THEN [statement |-> NoStatement, it |-> g.it, freed |-> {}, fatal |-> FALSE,
            prototype |-> scontext_statement]
      ELSE IF statement = NoStatement
      THEN [statement |-> NoStatement, it |-> g.it, freed |-> {g.it}, fatal |-> FALSE,
            prototype |-> scontext_statement]
      ELSE IF field = LIBRDF_STATEMENT_SUBJECT
      THEN [statement |-> [statement EXCEPT !.subject = g.node], it |-> g.it,
            freed |-> {}, fatal |-> FALSE,
            prototype |-> scontext_statement]
      ELSE IF field = LIBRDF_STATEMENT_PREDICATE
      THEN [statement |-> [statement EXCEPT !.predicate = g.node], it |-> g.it,
            freed |-> {}, fatal |-> FALSE,
            prototype |-> scontext_statement]
      ELSE IF field = LIBRDF_STATEMENT_OBJECT
      THEN [statement |-> [statement EXCEPT !.object = g.node], it |-> g.it,
            freed |-> {}, fatal |-> FALSE,
            prototype |-> scontext_statement]
      ELSE [statement |-> statement, it |-> g.it, freed |-> {}, fatal |-> TRUE,
            prototype |-> scontext_statement]

(* ---------------------------- stream core ----------------------------- *)
\* The tally of one call: how often it called the producer's end_of_stream,
\* the producer's next_statement and the map.
NoCalls == [end_tests |-> 0, pulls |-> 0, maps |-> 0]

\* the loop leaving at the first statement the map discards, instead of
\* going on to the next one
RECURSIVE get_next_mapped_statement_stops_at_discard(_, _, _, _, _)
get_next_mapped_statement_stops_at_discard(it, m, t, fr, ds) ==
  LET t1 == [t EXCEPT !.end_tests = @ + 1] IN
  IF librdf_stream_from_node_iterator_end_of_stream(it)
  THEN [statement |-> NoStatement, it |-> it, calls |-> t1, freed |-> fr, fatal |-> FALSE,
              discarded |-> ds,
              prototype |-> scontext_statement]
  ELSE
    LET r  == librdf_stream_from_node_iterator_next_statement(it)
        t2 == [t1 EXCEPT !.pulls = @ + 1]
        t3 == [t2 EXCEPT !.maps = @ + 1]
    IN  IF r.fatal \/ r.statement = NoStatement
        THEN [statement |-> NoStatement, it |-> r.it, calls |-> t2,
              freed |-> fr \cup r.freed, fatal |-> r.fatal,
              discarded |-> ds,
              prototype |-> r.prototype]
        ELSE [statement |-> ApplyMap(m, r.statement), it |-> r.it, calls |-> t3,
              freed |-> fr \cup r.freed, fatal |-> FALSE,
              discarded |-> IF ApplyMap(m, r.statement) = NoStatement
                            THEN ds \cup {r.statement.id} ELSE ds,
              prototype |-> r.prototype]

\* librdf_stream_get_next_mapped_statement: the loop, from iterator
\* position it with the calls made so far in t, the nodes freed so far in
\* fr and the statements the map discarded so far in ds
RECURSIVE librdf_stream_get_next_mapped_statement(_, _, _, _, _)
librdf_stream_get_next_mapped_statement(it, m, t, fr, ds) ==
  LET t1 == [t EXCEPT !.end_tests = @ + 1] IN
  IF librdf_stream_from_node_iterator_end_of_stream(it)
  THEN [statement |-> NoStatement, it |-> it, calls |-> t1, freed |-> fr, fatal |-> FALSE,
              discarded |-> ds,
              prototype |-> scontext_statement]
  ELSE
    LET r  == librdf_stream_from_node_iterator_next_statement(it)
        t2 == [t1 EXCEPT !.pulls = @ + 1]
        t3 == [t2 EXCEPT !.maps = @ + 1]
        mapped == ApplyMap(m, r.statement)
    IN  IF r.fatal
        THEN [statement |-> NoStatement, it |-> r.it, calls |-> t2,
              freed |-> fr \cup r.freed, fatal |-> TRUE,
              discarded |-> ds,
              prototype |-> r.prototype]
        ELSE IF r.statement = NoStatement
        THEN [statement |-> NoStatement, it |-> r.it, calls |-> t2,
              freed |-> fr \cup r.freed, fatal |-> FALSE,
              discarded |-> ds,
              prototype |-> r.prototype]
        ELSE IF mapped # NoStatement
        THEN [statement |-> mapped, it |-> r.it, calls |-> t3,
              freed |-> fr \cup r.freed, fatal |-> FALSE,
              discarded |-> ds,
              prototype |-> r.prototype]
        ELSE librdf_stream_get_next_mapped_statement(r.it, m, t3, fr \cup r.freed,
                                                     ds \cup {r.statement.id})

\* librdf_stream_next without the test of is_end_stream
librdf_stream_next_ignores_end(e, m, nx, it) ==
  IF m = NullMap
  THEN LET r == librdf_stream_from_node_iterator_next_statement(it)
       IN  [ret |-> r.statement, is_end_stream |-> e, next |-> nx, it |-> r.it,
            calls |-> [NoCalls EXCEPT !.pulls = 1], freed |-> r.freed, fatal |-> r.fatal,
            discarded |-> {},
              prototype |-> r.prototype]
  ELSE IF nx # NoStatement
  THEN [ret |-> nx, is_end_stream |-> e, next |-> NoStatement, it |-> it,
        calls |-> NoCalls, freed |-> {}, fatal |-> FALSE,
              discarded |-> {},
              prototype |-> scontext_statement]
  ELSE LET r == librdf_stream_get_next_mapped_statement(it, m, NoCalls, {}, {})
       IN  [ret |-> r.statement,
            is_end_stream |-> IF r.statement = NoStatement THEN TRUE ELSE e,
            next |-> nx, it |-> r.it, calls |-> r.calls, freed |-> r.freed,
            fatal |-> r.fatal,
              discarded |-> r.discarded,
              prototype |-> r.prototype]

\* librdf_stream_next that hands out the stored statement without emptying
\* stream->next
librdf_stream_next_keeps_stored(e, m, nx, it) ==
  IF e
  THEN [ret |-> NoStatement, is_end_stream |-> e, next |-> nx, it |-> it,
        calls |-> NoCalls, freed |-> {}, fatal |-> FALSE,
              discarded |-> {},
              prototype |-> scontext_statement]
  ELSE IF m = NullMap
  THEN LET r == librdf_stream_from_node_iterator_next_statement(it)
       IN  [ret |-> r.statement, is_end_stream |-> e, next |-> nx, it |-> r.it,
            calls |-> [NoCalls EXCEPT !.pulls = 1], freed |-> r.freed, fatal |-> r.fatal,
            discarded |-> {},
              prototype |-> r.prototype]
  ELSE IF nx # NoStatement
  THEN [ret |-> nx, is_end_stream |-> e, next |-> nx, it |-> it,
        calls |-> NoCalls, freed |-> {}, fatal |-> FALSE,
              discarded |-> {},
              prototype |-> scontext_statement]
  ELSE LET r == librdf_stream_get_next_mapped_statement(it, m, NoCalls, {}, {})
       IN  [ret |-> r.statement,
            is_end_stream |-> IF r.statement = NoStatement THEN TRUE ELSE e,
            next |-> nx, it |-> r.it, calls |-> r.calls, freed |-> r.freed,
            fatal |-> r.fatal,
              discarded |-> r.discarded,
              prototype |-> r.prototype]

\* librdf_stream_next on a stream with fields e (is_end_stream), m (map),
\* nx (next) over the producer at iterator position it
librdf_stream_next(e, m, nx, it) ==
  IF e
  THEN [ret |-> NoStatement, is_end_stream |-> e, next |-> nx, it |-> it,
        calls |-> NoCalls, freed |-> {}, fatal |-> FALSE,
              discarded |-> {},
              prototype |-> scontext_statement]
  ELSE IF m = NullMap
  THEN LET r == librdf_stream_from_node_iterator_next_statement(it)
       IN  [ret |-> r.statement, is_end_stream |-> e, next |-> nx, it |-> r.it,
            calls |-> [NoCalls EXCEPT !.pulls = 1], freed |-> r.freed, fatal |-> r.fatal,
            discarded |-> {},
              prototype |-> r.prototype]
  ELSE IF nx # NoStatement
  THEN [ret |-> nx, is_end_stream |-> e, next |-> NoStatement, it |-> it,
        calls |-> NoCalls, freed |-> {}, fatal |-> FALSE,
              discarded |-> {},
              prototype |-> scontext_statement]
  ELSE LET r == librdf_stream_get_next_mapped_statement(it, m, NoCalls, {}, {})
       IN  [ret |-> r.statement,
            is_end_stream |-> IF r.statement = NoStatement THEN TRUE ELSE e,
            next |-> nx, it |-> r.it, calls |-> r.calls, freed |-> r.freed,
            fatal |-> r.fatal,
              discarded |-> r.discarded,
              prototype |-> r.prototype]

\* librdf_stream_end that answers, also without a map, by pulling the next
\* statement and storing it
librdf_stream_end_always_looks_ahead(e, m, nx, it) ==
  IF e
  THEN [ret |-> TRUE, is_end_stream |-> e, next |-> nx, it |-> it,
        calls |-> NoCalls, freed |-> {}, fatal |-> FALSE,
        discarded |-> {}, prototype |-> scontext_statement]
  ELSE IF nx # NoStatement
  THEN [ret |-> FALSE, is_end_stream |-> e, next |-> nx, it |-> it,
        calls |-> NoCalls, freed |-> {}, fatal |-> FALSE,
        discarded |-> {}, prototype |-> scontext_statement]
  ELSE LET r == librdf_stream_get_next_mapped_statement(it, IF m = NullMap THEN IdentityMap ELSE m,
                                                        NoCalls, {}, {})
           e1 == IF r.statement = NoStatement THEN TRUE ELSE e
       IN  [ret |-> e1, is_end_stream |-> e1, next |-> r.statement, it |-> r.it,
            calls |-> r.calls, freed |-> r.freed, fatal |-> r.fatal,
            discarded |-> r.discarded, prototype |-> r.prototype]

\* librdf_stream_end that searches again although a statement is stored
librdf_stream_end_ignores_stored(e, m, nx, it) ==
  IF e
  THEN [ret |-> TRUE, is_end_stream |-> e, next |-> nx, it |-> it,
        calls |-> NoCalls, freed |-> {}, fatal |-> FALSE,
              discarded |-> {},
              prototype |-> scontext_statement]
  ELSE IF m = NullMap
  THEN LET r == librdf_stream_from_node_iterator_end_of_stream(it)
       IN  [ret |-> r, is_end_stream |-> r, next |-> nx, it |-> it,
            calls |-> [NoCalls EXCEPT !.end_tests = 1], freed |-> {}, fatal |-> FALSE,
            discarded |-> {},
              prototype |-> scontext_statement]
  ELSE LET r == librdf_stream_get_next_mapped_statement(it, m, NoCalls, {}, {})
           e1 == IF r.statement = NoStatement THEN TRUE ELSE e
       IN  [ret |-> e1, is_end_stream |-> e1, next |-> r.statement, it |-> r.it,
            calls |-> r.calls, freed |-> r.freed, fatal |-> r.fatal,
              discarded |-> r.discarded,
              prototype |-> r.prototype]

\* librdf_stream_end on a non-NULL stream
librdf_stream_end(e, m, nx, it) ==
  IF e
  THEN [ret |-> TRUE, is_end_stream |-> e, next |-> nx, it |-> it,
        calls |-> NoCalls, freed |-> {}, fatal |-> FALSE,
              discarded |-> {},
              prototype |-> scontext_statement]
  ELSE IF m = NullMap
  THEN LET r == librdf_stream_from_node_iterator_end_of_stream(it)
       IN  [ret |-> r, is_end_stream |-> r, next |-> nx, it |-> it,
            calls |-> [NoCalls EXCEPT !.end_tests = 1], freed |-> {}, fatal |-> FALSE,
            discarded |-> {},
              prototype |-> scontext_statement]
  ELSE IF nx # NoStatement
  THEN [ret |-> FALSE, is_end_stream |-> e, next |-> nx, it |-> it,
        calls |-> NoCalls, freed |-> {}, fatal |-> FALSE,
              discarded |-> {},
              prototype |-> scontext_statement]
  ELSE LET r == librdf_stream_get_next_mapped_statement(it, m, NoCalls, {}, {})
           e1 == IF r.statement = NoStatement THEN TRUE ELSE e
       IN  [ret |-> e1, is_end_stream |-> e1, next |-> r.statement, it |-> r.it,
            calls |-> r.calls, freed |-> r.freed, fatal |-> r.fatal,
              discarded |-> r.discarded,
              prototype |-> r.prototype]

(* ------------------------------ actions ------------------------------- *)
\* the twin stream before any call
NoTwin == [it |-> 0, is_end_stream |-> FALSE, ret |-> FALSE, statement |-> NoStatement]

NoLast == [op |-> "none", ret |-> FALSE, statement |-> NoStatement, calls |-> NoCalls]

Init ==
  /\ nodes \in SeqsUpTo(MaxNodes)
  /\ clone_fails \in {c \in SUBSET (1..Len(nodes)) : Cardinality(c) <= MaxCloneFails}
  /\ field \in FieldValues
  /\ scontext_statement = Prototype(field)
  /\ iterator = 0
  /\ iterator_frees = 0
  /\ scontext = "none"
  /\ stream = "none"
  /\ is_end_stream = FALSE
  /\ map = NullMap
  /\ next = NoStatement
  /\ aborted = FALSE
  /\ finished_calls = 0
  /\ freed_nodes = {}
  /\ freed_statements = {}
  /\ discarded = {}
  /\ alloc_failed = "none"
  /\ set_maps = 0
  /\ consumed = FALSE
  /\ late_map = FALSE
  /\ returned = <<>>
  /\ unmapped_twin = NoTwin
  /\ last = NoLast

\* finished that also frees the prototype statement of the context
finished_frees_prototype(fc, ifr) ==
  [finished_calls |-> fc + 1, iterator_frees |-> ifr + 1, scontext |-> "freed",
   freed_statements |-> {scontext_statement.id}]

\* librdf_stream_from_node_iterator_finished: frees the iterator and the
\* context, and no statement
librdf_stream_from_node_iterator_finished(fc, ifr) ==
  [finished_calls |-> fc + 1, iterator_frees |-> ifr + 1, scontext |-> "freed",
   freed_statements |-> {}]

\* librdf_new_stream: "live", or "null" when the allocation fails
librdf_new_stream(alloc_ok) == IF alloc_ok THEN "live" ELSE "null"

\* the constructor returning NULL on a failed stream allocation without
\* releasing the context it allocated
new_stream_from_node_iterator_leaks_context(ctx_ok, stream_ok) ==
  IF ~ctx_ok
  THEN [stream |-> "null", scontext |-> "none",
        finished_calls |-> finished_calls, iterator_frees |-> iterator_frees,
        freed_statements |-> {}]
  ELSE [stream |-> librdf_new_stream(stream_ok), scontext |-> "live",
        finished_calls |-> finished_calls, iterator_frees |-> iterator_frees,
        freed_statements |-> {}]

\* librdf_new_stream_from_node_iterator with the outcome of its two allocations
librdf_new_stream_from_node_iterator(ctx_ok, stream_ok) ==
  IF ~ctx_ok
  THEN [stream |-> "null", scontext |-> "none",
        finished_calls |-> finished_calls, iterator_frees |-> iterator_frees,
        freed_statements |-> {}]
  ELSE LET s == librdf_new_stream(stream_ok)
           f == librdf_stream_from_node_iterator_finished(finished_calls, iterator_frees)
       IN  IF s = "null"
           THEN [stream |-> "null", scontext |-> f.scontext,
                 finished_calls |-> f.finished_calls, iterator_frees |-> f.iterator_frees,
                 freed_statements |-> f.freed_statements]
           ELSE [stream |-> s, scontext |-> "live",
                 finished_calls |-> finished_calls, iterator_frees |-> iterator_frees,
                 freed_statements |-> {}]

\* librdf_free_stream that forgets to call the producer's finished function
librdf_free_stream_without_finished(nx) ==
  [stream |-> "freed", scontext |-> scontext,
   finished_calls |-> finished_calls, iterator_frees |-> iterator_frees,
   freed_statements |-> IF nx # NoStatement THEN {nx.id} ELSE {}]

\* librdf_free_stream that forgets the stored look-ahead statement
librdf_free_stream_leaks_stored(nx) ==
  LET f == librdf_stream_from_node_iterator_finished(finished_calls, iterator_frees)
  IN  [stream |-> "freed", scontext |-> f.scontext,
       finished_calls |-> f.finished_calls, iterator_frees |-> f.iterator_frees,
       freed_statements |-> f.freed_statements]

\* librdf_free_stream: finished(context), free the stored statement, free the stream
librdf_free_stream(nx) ==
  LET f == librdf_stream_from_node_iterator_finished(finished_calls, iterator_frees)
  IN  [stream |-> "freed", scontext |-> f.scontext,
       finished_calls |-> f.finished_calls, iterator_frees |-> f.iterator_frees,
       freed_statements |-> f.freed_statements \cup
                            (IF nx # NoStatement THEN {nx.id} ELSE {})]

\* librdf_stream_set_map
librdf_stream_set_map(m) == m

NewStreamFromNodeIterator ==
  /\ stream = "none"
  /\ \E ctx_ok \in BOOLEAN, stream_ok \in BOOLEAN :
       LET r == librdf_new_stream_from_node_iterator(ctx_ok, stream_ok) IN
       /\ stream' = r.stream
       /\ scontext' = r.scontext
       /\ finished_calls' = r.finished_calls
       /\ iterator_frees' = r.iterator_frees
       /\ freed_statements' = freed_statements \cup r.freed_statements
       /\ alloc_failed' = IF ~ctx_ok THEN "context"
                          ELSE IF ~stream_ok THEN "stream" ELSE "none"
       /\ last' = [NoLast EXCEPT !.op = "new", !.ret = (r.stream # "null")]
  /\ UNCHANGED <<nodes, clone_fails, field, scontext_statement, iterator,
                 is_end_stream, map, next,
                 aborted, freed_nodes, discarded, set_maps, consumed, late_map,
                 returned, unmapped_twin>>

\* the second stream is run alongside only while the first one has had the
\* identity map installed since before its first call; in every other run the
\* two are not compared and the second stream is left in its initial state
TwinCompared == map = IdentityMap /\ ~late_map

SetMap ==
  /\ stream = "live"
  /\ ~aborted
  /\ set_maps < MaxSetMap
  /\ \E m \in MapFunctions \cup {NullMap} : map' = librdf_stream_set_map(m)
  /\ set_maps' = set_maps + 1
  /\ late_map' = (late_map \/ consumed)
  /\ last' = [NoLast EXCEPT !.op = "set_map"]
  /\ UNCHANGED <<nodes, clone_fails, field, scontext_statement, iterator,
                 iterator_frees, scontext,
                 stream, is_end_stream, next, aborted, finished_calls,
                 freed_nodes, freed_statements, discarded, alloc_failed, consumed,
                 returned, unmapped_twin>>

StreamEnd ==
  /\ stream = "live"
  /\ ~aborted
  /\ LET r == librdf_stream_end(is_end_stream, map, next, iterator) IN
       /\ is_end_stream' = r.is_end_stream
       /\ next' = r.next
       /\ iterator' = r.it
       /\ aborted' = r.fatal
       /\ freed_nodes' = freed_nodes \cup r.freed
       /\ discarded' = discarded \cup r.discarded
       /\ scontext_statement' = r.prototype
       /\ last' = [op |-> "end", ret |-> r.ret, statement |-> NoStatement,
                   calls |-> r.calls]
  /\ LET t == librdf_stream_end(unmapped_twin.is_end_stream, NullMap, NoStatement,
                                unmapped_twin.it) IN
       unmapped_twin' = IF TwinCompared
                        THEN [it |-> t.it, is_end_stream |-> t.is_end_stream,
                              ret |-> t.ret, statement |-> NoStatement]
                        ELSE NoTwin
  /\ consumed' = TRUE
  /\ UNCHANGED <<nodes, clone_fails, field, iterator_frees, scontext, stream, map,
                 finished_calls, freed_statements, alloc_failed, set_maps, late_map,
                 returned>>

\* librdf_stream_end on the NULL stream a failed constructor returned
StreamEndNull ==
  /\ stream = "null"
  /\ last' = [NoLast EXCEPT !.op = "end", !.ret = TRUE]
  /\ UNCHANGED <<nodes, clone_fails, field, scontext_statement, iterator,
                 iterator_frees, scontext,
                 stream, is_end_stream, map, next, aborted, finished_calls,
                 freed_nodes, freed_statements, discarded, alloc_failed, set_maps,
                 consumed, late_map, returned, unmapped_twin>>

StreamNext ==
  /\ stream = "live"
  /\ ~aborted
  /\ LET r == librdf_stream_next(is_end_stream, map, next, iterator) IN
       /\ is_end_stream' = r.is_end_stream
       /\ next' = r.next
       /\ iterator' = r.it
       /\ aborted' = r.fatal
       /\ freed_nodes' = freed_nodes \cup r.freed
       /\ discarded' = discarded \cup r.discarded
       /\ scontext_statement' = r.prototype
       /\ returned' = IF r.ret # NoStatement /\ ~r.fatal
                      THEN Append(returned, r.ret) ELSE returned
       /\ last' = [op |-> "next", ret |-> (r.ret # NoStatement),
                   statement |-> r.ret, calls |-> r.calls]
  /\ LET t == librdf_stream_next(unmapped_twin.is_end_stream, NullMap, NoStatement,
                                 unmapped_twin.it) IN
       unmapped_twin' = IF TwinCompared
                        THEN [it |-> t.it, is_end_stream |-> t.is_end_stream,
                              ret |-> (t.ret # NoStatement), statement |-> t.ret]
                        ELSE NoTwin
  /\ consumed' = TRUE
  /\ UNCHANGED <<nodes, clone_fails, field, iterator_frees, scontext, stream, map,
                 finished_calls, freed_statements, alloc_failed, set_maps, late_map>>

FreeStream ==
  /\ stream = "live"
  /\ ~aborted
  /\ LET r == librdf_free_stream(next) IN
       /\ stream' = r.stream
       /\ scontext' = r.scontext
       /\ finished_calls' = r.finished_calls
       /\ iterator_frees' = r.iterator_frees
       /\ freed_statements' = freed_statements \cup r.freed_statements
  /\ last' = [NoLast EXCEPT !.op = "free"]
  /\ UNCHANGED <<nodes, clone_fails, field, scontext_statement, iterator,
                 is_end_stream, map, next,
                 aborted, freed_nodes, discarded, alloc_failed, set_maps, consumed,
                 late_map, returned, unmapped_twin>>

Next ==
  \/ NewStreamFromNodeIterator
  \/ SetMap
  \/ StreamEnd
  \/ StreamEndNull
  \/ StreamNext
  \/ FreeStream

Spec == Init /\ [][Next]_vars

TypeOK ==
  /\ iterator \in 0..Len(nodes)
  /\ stream \in {"none", "null", "live", "freed"}
  /\ scontext \in {"none", "live", "freed"}
  /\ is_end_stream \in BOOLEAN
  /\ map \in MapFunctions \cup {NullMap}

(* ------------------------ what the claims speak of -------------------- *)
\* the producer obeys its contract: legal selector, and a stream exists
LegalStream == stream \in {"live", "freed"} /\ field \in ValidFields

\* the statement the producer yields at its k-th pull (NoStatement for NULL)
ProducerYield(k) == librdf_stream_from_node_iterator_next_statement(k - 1).statement

\* what one produced statement becomes on its way to the caller
Through(m, st) ==
  IF st = NoStatement \/ m = NullMap THEN st ELSE ApplyMap(m, st)

\* the statements of the first k pulls that reach the caller, in order
RECURSIVE Survivors(_, _)
Survivors(m, k) ==
  IF k = 0 THEN <<>>
  ELSE IF Through(m, ProducerYield(k)) = NoStatement THEN Survivors(m, k - 1)
  ELSE Append(Survivors(m, k - 1), Through(m, ProducerYield(k)))

\* the look-ahead slot as a sequence of zero or one statement
Held == IF next # NoStatement THEN <<next>> ELSE <<>>

\* the last call told the caller that the stream is at its end
ReportedEnd ==
  \/ last.op = "end" /\ last.ret
  \/ last.op = "next" /\ ~last.ret

(* -------------------------------- C1 ---------------------------------- *)
\* C1: whatever end and next calls were made on a stream whose map (if any)
\* was set before consumption began, the statements returned by next,
\* followed by the one held as look-ahead, are exactly the pulled
\* statements that survive the map, each once; and once a producer that
\* never fails has been reported at its end, all its survivors were returned.
C1_NoLossNoDuplication ==
  (LegalStream /\ ~late_map) =>
    /\ returned \o Held = Survivors(map, iterator)
    /\ \A i, j \in 1..Len(returned) : i # j => returned[i].id # returned[j].id
    /\ (clone_fails = {} /\ (ReportedEnd \/ is_end_stream)) =>
         returned = Survivors(map, Len(nodes))

\* witness: with a map that drops a middle node, end calls interleaved, the
\* stream has been drained and reported at its end
C1_Witness ==
  /\ LegalStream /\ ~late_map /\ clone_fails = {}
  /\ map # NullMap /\ map.drop = {2}
  /\ Len(nodes) = MaxNodes
  /\ last.op = "end" /\ last.ret
  /\ Len(returned) = MaxNodes - 1

(* -------------------------------- C2 ---------------------------------- *)
\* no map is installed, and none was while the stream was consumed
Unmapped == map = NullMap /\ ~late_map

\* C2: with no map and a producer of N elements that never fails, the
\* statements returned by next are the producer's first elements in its
\* order; next returns a statement exactly while fewer than N were returned
\* and absent from then on; end returns false while fewer than N were
\* returned and true once all N were.
C2_UnmappedOrderAndEnd ==
  (LegalStream /\ Unmapped /\ clone_fails = {}) =>
    /\ Len(returned) <= Len(nodes)
    /\ \A k \in 1..Len(returned) : returned[k] = ProducerYield(k)
    /\ (last.op = "next" /\ last.ret) => last.statement = returned[Len(returned)]
    /\ (last.op = "next" /\ ~last.ret) =>
         (last.statement = NoStatement /\ Len(returned) = Len(nodes))
    /\ last.op = "end" => (last.ret <=> Len(returned) = Len(nodes))

\* witness: all N = MaxNodes elements were returned, then next returned absent
C2_Witness ==
  /\ LegalStream /\ Unmapped /\ clone_fails = {} /\ set_maps = 0
  /\ Len(nodes) = MaxNodes /\ Len(returned) = MaxNodes
  /\ last.op = "next" /\ ~last.ret

(* -------------------------------- C3 ---------------------------------- *)
\* a map is installed, and it was before the stream was consumed
MappedFromStart == map # NullMap /\ ~late_map

\* the map results of all accepted elements of the producer, in its order
AcceptedAll == Survivors(map, Len(nodes))

\* C3: with a map installed before consumption over a producer that never
\* fails, next returns the map results of the accepted elements in producer
\* order; it returns absent only after the last of them; and end returns
\* true exactly when the last accepted element has been returned.
C3_MappedOrderAndEnd ==
  (LegalStream /\ MappedFromStart /\ clone_fails = {}) =>
    /\ Len(returned) <= Len(AcceptedAll)
    /\ \A k \in 1..Len(returned) : returned[k] = AcceptedAll[k]
    /\ (last.op = "next" /\ last.ret) => last.statement = returned[Len(returned)]
    /\ (last.op = "next" /\ ~last.ret) => returned = AcceptedAll
    /\ last.op = "end" => (last.ret <=> returned = AcceptedAll)

\* witness: the map rewrites what it keeps and discards the trailing
\* elements; the only accepted element was returned and end then said true
C3_Witness ==
  /\ LegalStream /\ MappedFromStart /\ clone_fails = {}
  /\ Len(nodes) = MaxNodes
  /\ map.mark /\ map.drop = (1..MaxNodes) \ {1}
  /\ Len(returned) = 1 /\ returned[1].id = 1
  /\ last.op = "end" /\ last.ret

(* -------------------------------- C4 ---------------------------------- *)
\* C4: an end call that directly follows an end call returns the same value
\* and leaves the producer, the look-ahead and the returned statements as
\* they were, calling neither the producer's next_statement nor the map;
\* and with a map installed, a next call that directly follows an end call
\* that said false returns the statement that end stored, without a search.
C4_EndIdempotent ==
  [][ /\ (stream = "live" /\ last.op = "end" /\ last'.op = "end") =>
           /\ last'.ret = last.ret
           /\ iterator' = iterator
           /\ next' = next
           /\ returned' = returned
           /\ last'.calls.pulls = 0
           /\ last'.calls.maps = 0
      /\ (stream = "live" /\ last.op = "end" /\ ~last.ret /\ map # NullMap
            /\ last'.op = "next") =>
           /\ next # NoStatement
           /\ last'.statement = next
           /\ last'.calls = NoCalls
           /\ iterator' = iterator
    ]_vars

\* witness: with a map installed, end has looked ahead past a discarded
\* statement and stored the next one (a second end or a next can follow)
C4_Witness ==
  /\ stream = "live" /\ ~aborted /\ map # NullMap /\ map.drop = {1}
  /\ last.op = "end" /\ ~last.ret /\ last.calls = NoCalls
  /\ next # NoStatement /\ next.id = 2 /\ iterator = 2

(* -------------------------------- C5 ---------------------------------- *)
\* C5: for a successfully created stream the producer's finished function
\* has not been called while the stream exists, whatever create, set_map,
\* end and next calls were made, and has been called exactly once when the
\* stream has been destroyed.
C5_FinishedOnceAtDestroy ==
  /\ stream = "live" => (finished_calls = 0 /\ scontext = "live")
  /\ stream = "freed" => (finished_calls = 1 /\ scontext = "freed")

\* witness: destroyed in mid-consumption with a look-ahead statement stored
C5_Witness ==
  /\ stream = "freed" /\ finished_calls = 1
  /\ next # NoStatement /\ next.id \in freed_statements
  /\ Len(returned) = 1 /\ iterator < Len(nodes)

(* -------------------------------- C6 ---------------------------------- *)
\* C6: once is_end_stream is set, no step clears it, every end call returns
\* true and every next call returns absent.
C6_EndedSticky ==
  [][ is_end_stream =>
        /\ is_end_stream'
        /\ (last'.op = "end" /\ stream' = "live") => last'.ret
        /\ (last'.op = "next" /\ stream' = "live") =>
             (~last'.ret /\ last'.statement = NoStatement)
    ]_vars

\* witness: the flag was set by an end call while the iterator still has
\* nodes (a clone failed under a map), and a next call then returned absent
C6_Witness ==
  /\ stream = "live" /\ is_end_stream /\ map # NullMap
  /\ iterator < Len(nodes)
  /\ last.op = "next" /\ ~last.ret /\ last.calls = NoCalls

(* -------------------------------- C7 ---------------------------------- *)
\* the last call was a next that returned absent because the clone of the
\* prototype failed for the node it pulled
CloneFailedInLastNext ==
  /\ stream = "live" /\ field \in ValidFields
  /\ last.op = "next" /\ ~last.ret /\ last.calls.pulls > 0
  /\ iterator \in clone_fails

\* C7: when next has returned absent because the clone failed, the pulled
\* node has been released, and the next call that follows returns absent
\* too, with or without a map.
C7_CloneFailureTerminal ==
  [][ CloneFailedInLastNext =>
        /\ iterator \in freed_nodes
        /\ (last'.op = "next" /\ stream' = "live") => ~last'.ret
    ]_vars

(* -------------------------------- C8 ---------------------------------- *)
\* the k-th statement the adapter is to yield: the prototype with the
\* selected field set to the k-th node
Expected(k) ==
  [id |-> k,
   subject   |-> IF field = LIBRDF_STATEMENT_SUBJECT
                 THEN nodes[k] ELSE Prototype(field).subject,
   predicate |-> IF field = LIBRDF_STATEMENT_PREDICATE
                 THEN nodes[k] ELSE Prototype(field).predicate,
   object    |-> IF field = LIBRDF_STATEMENT_OBJECT
                 THEN nodes[k] ELSE Prototype(field).object]

\* C8: over nodes n1..nk with a legal selector f, no clone failure and no
\* map, the i-th statement next returns carries ni in field f and the
\* prototype's nodes in the two other fields, next returns absent only
\* after k statements, and never more than k.
C8_AdapterYieldsPrototypeWithNode ==
  (LegalStream /\ Unmapped /\ clone_fails = {}) =>
    /\ Len(returned) <= Len(nodes)
    /\ \A i \in 1..Len(returned) : returned[i] = Expected(i)
    /\ (last.op = "next" /\ ~last.ret) => Len(returned) = Len(nodes)
    /\ (last.op = "next" /\ last.ret) => last.statement = Expected(Len(returned))

\* witness: selector predicate, all MaxNodes statements returned, then absent
C8_Witness ==
  /\ LegalStream /\ Unmapped /\ clone_fails = {}
  /\ field = LIBRDF_STATEMENT_PREDICATE
  /\ Len(nodes) = MaxNodes /\ Len(returned) = MaxNodes
  /\ returned[MaxNodes].predicate = nodes[MaxNodes]
  /\ returned[MaxNodes].subject = ProtoSubject
  /\ last.op = "next" /\ ~last.ret

(* -------------------------------- C9 ---------------------------------- *)
\* C9 as stated: with an illegal selector, a next call on the stream takes
\* the fatal path (no next call completes without it).
C9_FatalAtFirstNext ==
  (field \notin ValidFields /\ last.op = "next") => aborted

\* C9 as amended: with an illegal selector the constructor succeeds unless
\* an allocation fails and never takes the fatal path; the fatal path is
\* taken exactly by the first call (next, or end under a map) whose producer
\* pull obtains a node and clones the prototype; until then next returns
\* absent, and no statement ever reaches the caller.
C9_FatalWhenNodeCloned ==
  field \notin ValidFields =>
    /\ (stream \in {"none", "null"} \/ last.op \in {"new", "set_map"}) => ~aborted
    /\ (stream # "none" /\ alloc_failed = "none") => stream \in {"live", "freed"}
    /\ aborted <=> (iterator > 0 /\ iterator \notin clone_fails)
    /\ aborted => (last.op \in {"next", "end"} /\ last.calls.pulls > 0)
    /\ returned = <<>>
    /\ next = NoStatement

\* witness: illegal selector, construction succeeded, a next call pulled a
\* node, cloned the prototype and reached LIBRDF_FATAL2
C9_Witness ==
  /\ field \notin ValidFields /\ stream = "live" /\ aborted
  /\ last.op = "next" /\ iterator = 1

(* -------------------------------- C10 --------------------------------- *)
\* C10: the constructor returns NULL exactly when one of its two
\* allocations fails; then no adapter context remains allocated (the one
\* allocated before a failed stream allocation was released by finished,
\* called once), and neither the producer's end test nor its next
\* operation nor the map was called.
C10_FailedConstruction ==
  /\ stream # "none" => (stream = "null" <=> alloc_failed # "none")
  /\ stream = "null" =>
       /\ scontext = (IF alloc_failed = "stream" THEN "freed" ELSE "none")
       /\ finished_calls = (IF alloc_failed = "stream" THEN 1 ELSE 0)
       /\ iterator = 0
       /\ last.calls = NoCalls
       /\ returned = <<>> /\ next = NoStatement
       /\ ~aborted /\ ~is_end_stream

\* witness: the stream allocation failed after the context was allocated
C10_Witness ==
  /\ stream = "null" /\ alloc_failed = "stream"
  /\ scontext = "freed" /\ finished_calls = 1
  /\ last.op = "new" /\ ~last.ret

(* -------------------------------- C11 --------------------------------- *)
\* the pulls that produced a statement
Pulled == {i \in 1..iterator : i \notin clone_fails}

\* the statements handed to the caller, and the one in the look-ahead slot
ReturnedIds == {returned[k].id : k \in 1..Len(returned)}
HeldIds == IF next # NoStatement THEN {next.id} ELSE {}

\* C11: every statement pulled from the producer is in exactly one place:
\* returned to the caller by next (once), discarded by the map, or in the
\* look-ahead slot; the stream releases nothing while it lives, and destroy
\* releases exactly the statement in the slot, never one that was returned
\* or discarded.
C11_OwnershipConserved ==
  LegalStream =>
    /\ Pulled = ReturnedIds \cup discarded \cup HeldIds
    /\ ReturnedIds \cap discarded = {}
    /\ ReturnedIds \cap HeldIds = {}
    /\ discarded \cap HeldIds = {}
    /\ Cardinality(ReturnedIds) = Len(returned)
    /\ freed_statements \cap (ReturnedIds \cup discarded) = {}
    /\ stream = "live" => freed_statements = {}
    /\ stream = "freed" => freed_statements = HeldIds

\* witness: destroyed when one statement had been returned, one discarded
\* by the map and one was stored as look-ahead
C11_Witness ==
  /\ LegalStream /\ stream = "freed"
  /\ ReturnedIds # {} /\ discarded # {} /\ HeldIds # {}
  /\ freed_statements = HeldIds

(* -------------------------------- C12 --------------------------------- *)
\* the statements the stream has handed out or holds
HandedOut ==
  ({returned[k] : k \in 1..Len(returned)} \cup {next, last.statement}) \ {NoStatement}

\* C12: whatever was called on an adapter-backed stream, destroy included,
\* the prototype statement is as the caller passed it and was not released,
\* every statement handed out is another object than the prototype, and the
\* node iterator and the adapter context are released by finished, once:
\* not while the stream lives, and exactly once when it was destroyed.
C12_PrototypeUntouched ==
  stream \in {"live", "freed"} =>
    /\ scontext_statement = Prototype(field)
    /\ scontext_statement.id \notin freed_statements
    /\ \A st \in HandedOut : st.id # scontext_statement.id
    /\ stream = "live" => (iterator_frees = 0 /\ scontext = "live")
    /\ stream = "freed" =>
         (iterator_frees = 1 /\ scontext = "freed" /\ iterator_frees = finished_calls)

\* witness: statements were yielded, one is still stored, and the stream
\* was destroyed
C12_Witness ==
  /\ stream = "freed" /\ field \in ValidFields
  /\ Len(returned) > 0 /\ next # NoStatement
  /\ iterator_frees = 1 /\ scontext = "freed"
  /\ scontext_statement = Prototype(field)

(* -------------------------------- C13 --------------------------------- *)
\* C13: a step that constructs a stream successfully or sets the map calls
\* none of the producer's operations and not the map, and leaves the
\* iterator, the look-ahead, the ended flag and the returned statements as
\* they were; with no map installed an end call makes one call of the
\* producer's end test (none once ended) and none of its next operation
\* or of the map, and a next call
\* makes at most one call of the producer's next operation and takes at
\* most one node from the iterator.
C13_DemandDriven ==
  [][ /\ ((last'.op = "new" /\ last'.ret) \/ last'.op = "set_map") =>
           /\ last'.calls = NoCalls
           /\ iterator' = iterator
           /\ finished_calls' = finished_calls
           /\ next' = next
           /\ is_end_stream' = is_end_stream
           /\ returned' = returned
           /\ discarded' = discarded
      /\ (stream = "live" /\ map = NullMap /\ last'.op = "end") =>
           /\ last'.calls.pulls = 0
           /\ last'.calls.maps = 0
           /\ last'.calls.end_tests = (IF is_end_stream THEN 0 ELSE 1)
           /\ iterator' = iterator
           /\ next' = next
      /\ (stream = "live" /\ map = NullMap /\ last'.op = "next") =>
           /\ last'.calls.pulls <= 1
           /\ last'.calls.end_tests = 0
           /\ last'.calls.maps = 0
           /\ iterator' \in {iterator, iterator + 1}
    ]_vars

\* witness: with no map ever set, an end call has just asked the producer
\* once while nodes remain
C13_Witness ==
  /\ stream = "live" /\ set_maps = 0 /\ ~aborted
  /\ last.op = "end" /\ ~last.ret
  /\ last.calls = [NoCalls EXCEPT !.end_tests = 1]
  /\ iterator = 1 /\ Len(nodes) = MaxNodes /\ next = NoStatement

(* -------------------------------- C14 --------------------------------- *)
\* the statements pulled from the producer that the map did not discard
\* and that next has not returned
Outstanding == Pulled \ (ReturnedIds \cup discarded)

\* C14: at most one statement is pulled, accepted and not yet returned, and
\* it is the one in the look-ahead slot; there is none while no map was
\* ever set; and after a next call that had to search under a map the slot
\* is empty and the statement found is among the returned ones.
C14_LookaheadAtMostOne ==
  LegalStream =>
    /\ Cardinality(Outstanding) <= 1
    /\ Outstanding = HeldIds
    /\ set_maps = 0 => (Outstanding = {} /\ next = NoStatement)
    /\ (map # NullMap /\ last.op = "next" /\ last.calls.pulls > 0) =>
         /\ next = NoStatement
         /\ last.ret => last.statement = returned[Len(returned)]

\* witness: under a map an end call stored a statement after one had been
\* returned by a searching next
C14_Witness ==
  /\ LegalStream /\ stream = "live" /\ map # NullMap
  /\ Len(returned) = 1 /\ Cardinality(Outstanding) = 1
  /\ last.op = "end" /\ last.calls.pulls > 0

(* -------------------------------- C15 --------------------------------- *)
\* C15: when the constructor has returned NULL, whichever allocation
\* failed, the caller's node iterator has not been released.
C15_IteratorKeptOnFailure ==
  stream = "null" => iterator_frees = 0

(* -------------------------------- C16 --------------------------------- *)
\* C16: when set_map was called (with another map or with none) while a
\* statement was stored by an earlier end call, the next call that directly
\* follows returns that stored statement.
C16_StoredSurvivesSetMap ==
  [][ (stream = "live" /\ last.op = "set_map" /\ next # NoStatement
         /\ last'.op = "next") =>
        last'.statement = next
    ]_vars

(* -------------------------------- C17 --------------------------------- *)
\* C17: in an end or next call under a map every call of the producer's
\* next operation follows an end test that said false (so it takes a node
\* from the iterator, and the end tests of the call are as many as its
\* pulls, or one more when the search stopped at the end test), and the map
\* is called at most once per pull; and an end or next call on a stream
\* whose ended flag is set calls neither the end test, nor the next
\* operation, nor the map.
C17_GuardedPulls ==
  [][ (stream = "live" /\ last'.op \in {"end", "next"}) =>
        /\ map # NullMap =>
             /\ last'.calls.pulls = iterator' - iterator
             /\ last'.calls.end_tests \in {last'.calls.pulls, last'.calls.pulls + 1}
             /\ last'.calls.maps <= last'.calls.pulls
        /\ is_end_stream =>
             /\ last'.calls = NoCalls
             /\ iterator' = iterator
    ]_vars

\* witness: the ended flag was set while nodes remain (a clone failed in a
\* search under a map), and an end call then asked nobody
C17_Witness ==
  /\ stream = "live" /\ is_end_stream /\ map # NullMap
  /\ iterator < Len(nodes)
  /\ last.op = "end" /\ last.ret /\ last.calls = NoCalls

(* -------------------------------- C18 --------------------------------- *)
\* C18: over a producer that never fails, a stream whose map, set before
\* consumption, is the identity returns from every end and every next call
\* what the twin stream without map returns from the same call.
C18_IdentityMapEquivalent ==
  (LegalStream /\ clone_fails = {} /\ map = IdentityMap /\ ~late_map
     /\ last.op \in {"end", "next"}) =>
    /\ last.ret = unmapped_twin.ret
    /\ last.statement = unmapped_twin.statement

\* witness: under the identity map, after end calls that looked ahead, the
\* last statement was returned, the twin returned it too, and it had pulled
\* it only then
C18_Witness ==
  /\ LegalStream /\ clone_fails = {} /\ map = IdentityMap /\ ~late_map
  /\ Len(nodes) = MaxNodes /\ Len(returned) = MaxNodes
  /\ last.op = "next" /\ last.ret /\ last.calls = NoCalls
  /\ unmapped_twin.statement = last.statement

(* -------------------------------- C19 --------------------------------- *)
\* C19: over a node iterator with a legal field selector, an end or next
\* call under any map, a map discarding every statement included, pulls no
\* more nodes than the iterator has left, each pull taking the next node
\* (so none twice), and calls the map at most once per pull; and when no
\* clone fails, a call whose search finds nothing has pulled every node
\* that was left, has shown each to the map once, has seen the end test say
\* true, and leaves the stream ended.
C19_SearchTerminates ==
  [][ (stream = "live" /\ field \in ValidFields /\ map # NullMap
         /\ last'.op \in {"end", "next"}) =>
        /\ last'.calls.pulls <= Len(nodes) - iterator
        /\ iterator' = iterator + last'.calls.pulls
        /\ last'.calls.maps <= last'.calls.pulls
        /\ (/\ clone_fails = {}
            /\ last'.calls.end_tests > 0
            /\ \/ last'.op = "end" /\ last'.ret
               \/ last'.op = "next" /\ ~last'.ret) =>
             /\ iterator' = Len(nodes)
             /\ last'.calls.pulls = Len(nodes) - iterator
             /\ last'.calls.maps = last'.calls.pulls
             /\ last'.calls.end_tests = last'.calls.pulls + 1
             /\ is_end_stream'
             /\ next' = NoStatement
    ]_vars

\* witness: under a map that discards every statement the first end call
\* pulled all the nodes of the longest iterator, showed each to the map,
\* and reported the end
C19_Witness ==
  /\ stream = "live" /\ field \in ValidFields /\ clone_fails = {}
  /\ map # NullMap /\ map.drop = NodeValues
  /\ Len(nodes) = MaxNodes
  /\ last.op = "end" /\ last.ret
  /\ last.calls = [end_tests |-> MaxNodes + 1, pulls |-> MaxNodes, maps |-> MaxNodes]
  /\ iterator = Len(nodes) /\ is_end_stream /\ discarded = 1..MaxNodes

====
